---------------------------- MODULE Spec2Model ----------------------------
(***************************************************************************)
(* A model of Hooke's polymer-fit core (hooke/plugin/polymer_fit.py): the  *)
(* special functions, the model functions, the fit adapters, the           *)
(* fit_*_model routines of PolymerFitCommand and the diagnostics handoff.  *)
(*                                                                         *)
(* Floating-point values are modelled as extended fixed-point numbers: a   *)
(* finite value is an integer count of a stated unit, and +inf, -inf and   *)
(* NaN are values of their own that follow the IEEE-754 rules the code     *)
(* relies on (inf * 0 = NaN, x / 0 = inf, comparisons with NaN are false). *)
(***************************************************************************)
EXTENDS Integers, Sequences, FiniteSets, TLC

VARIABLES
    \* ---- solver threads (inverse_Langevin, FJC_PEG_fn) ----
    sys_stdout,     \* the process-wide sys.stdout: "real" or a thread's StringIO
    real_out,       \* TRUE once text printed by newton() reached the real stdout
    tpc,            \* per thread: position in the code
    tfn,            \* per thread: the top-level function called ("IL", "PEG", "none")
    tz,             \* per thread: argument z of the running inverse_Langevin call
    textreme,       \* per thread: argument extreme of that call
    tx,             \* per thread: argument x_data of the running FJC_PEG_fn call
    tL,             \* per thread: trial contour length L of the seed loop
    tguess,         \* per thread: local `guess` of FJC_PEG_fn
    tstdout,        \* per thread: local `stdout` of inverse_Langevin (line 157)
    tret,           \* per thread: value returned by the last finished call
    tnewton,        \* per thread: sys.stdout at each newton() invocation so far
    tforeign,       \* per thread: TRUE once it read a value another thread wrote
    \* ---- one 'polymer fit' call (PolymerFitCommand.fit_polymer_model) ----
    fpc,            \* position in the code
    cfg_model,      \* self.plugin.config['polymer model'], a string
    z_data,         \* argument z_data
    start,          \* argument start
    stop,           \* argument stop
    depth,          \* frames of fit_polymer_model on the call stack
    called,         \* name of the fit_*_model routine entered (<<>> before)
    adapter,        \* the ModelFitter subclass constructed ("none" before)
    info,           \* the info dict handed to the adapter
    params,         \* the free vector guess_initial_params returned
    scale,          \* the vector guess_scale returned
    fitted,         \* what model.fit returned
    Lfit,           \* the local L = model.L(Lp) of the routine
    queue,          \* the routine's own Queue.Queue()
    outqueue,       \* the caller's outqueue
    fit_info,       \* the local fit_info
    outcome,        \* how the call ended, and the list it returned
    \* ---- PolymerFitCommand._run around that call (lines 952-973) ----
    block_columns,  \* data.info['columns'] of the block the command was given
    new_columns,    \* new.info['columns'] of the local block `new`
    new_params,     \* new.info['<model> polymer fit parameters'], NoVal if unset
    new_tension,    \* the last column of `new`, <<>> while unset
    block_installed,\* whether params['curve'].data[params['block']] is `new`
    evaluated,      \* positions of z_data the tension step gave the model function
    \* ---- the diagnostics handoff as the doctests use it (lines 232-247) ----
    hq,             \* outqueue = Queue.Queue(), shared by the fits and the reader
    hdata,          \* number of data points of the adapter being fitted
    hgiven,         \* whether its info holds the fixed secondary length
    hfit,           \* state of the last model.fit(outqueue=outqueue) call
    hempty,         \* whether the queue was empty when that call began
    hfits,          \* whether any fit call has begun
    hgets,          \* reads issued since that call ended (counted up to 2)
    hlast,          \* how the last outqueue.get ended
    hrec,           \* the record the last successful get returned
    \* ---- direct calls: the functions on vectors, and one adapter object ----
    acls,           \* class of the adapter constructed ("none" before)
    ainfo,          \* its self.info
    adata,          \* its self._data
    amodel_data,    \* its self._model_data buffer
    aop,            \* the function or method called last
    aarg,           \* the arguments of that call
    aret,           \* what that call returned
    \* ---- ClickedPoint (src/libhooke.py lines 237-270) ----
    absolute_coords,\* self.absolute_coords, (None, None) before a click
    graph_coords,   \* self.graph_coords
    index,          \* self.index
    xvector,        \* arguments of the last find_graph_coords
    yvector,
    click_ret,      \* how that call ended
    \* ---- mfp1dexportDriver (src/trunk/mfp1dexport.py lines 14-40) ----
    lines,          \* self.lines
    raw_header,     \* self.raw_header
    is_me_ret,      \* how is_me ended
    \* ---- hooke.ui (src/branches/wtk/hooke/ui/__init__.py) ----
    ui_config,      \* .config of each interface of USER_INTERFACES
    ui_call         \* the last load_ui or reload_config call and how it ended

varsThreads == <<real_out, tpc, tfn, tz, textreme, tx, tL, tguess, tstdout,
                 tret, tnewton, tforeign>>
varsSolver == <<sys_stdout, varsThreads>>
varsFit == <<fpc, cfg_model, z_data, start, stop, depth, called, adapter, info,
             params, scale, fitted, Lfit, queue, outqueue, fit_info, outcome>>
varsRun == <<block_columns, new_columns, new_params, new_tension, block_installed,
            evaluated>>

varsHandoff == <<hq, hdata, hgiven, hfit, hempty, hfits, hgets, hlast, hrec>>

varsEval == <<acls, ainfo, adata, amodel_data, aop, aarg, aret>>

varsClick == <<absolute_coords, graph_coords, index, xvector, yvector, click_ret>>
varsDriver == <<lines, raw_header, is_me_ret>>
varsUI == <<ui_config, ui_call>>
varsApp == <<varsClick, varsDriver, varsUI>>

vars == <<varsSolver, varsFit, varsRun, varsHandoff, varsEval, varsApp>>

---------------------------------------------------------------------------
(* Extended values.                                                        *)

Fin(n) == [k |-> "fin", v |-> n]
PInf == [k |-> "inf", v |-> 0]
NInf == [k |-> "ninf", v |-> 0]
NaN == [k |-> "nan", v |-> 0]
NoVal == [k |-> "none", v |-> 0]

IsFin(a) == a.k = "fin"
IsInfinite(a) == a.k \in {"inf", "ninf"}
IsNaN(a) == a.k = "nan"

Abs(n) == IF n < 0 THEN -n ELSE n
Sgn(n) == IF n < 0 THEN -1 ELSE IF n > 0 THEN 1 ELSE 0
Max2(a, b) == IF a >= b THEN a ELSE b

\* Truncating division of integers (C and IEEE round toward the exact
\* quotient; the fixed-point grid keeps the sign and truncates the magnitude).
TDiv(n, d) == Sgn(n) * Sgn(d) * (Abs(n) \div Abs(d))

\* One unit of a z value is 1e-9, so that extreme = 1.0 - 1e-8 is a grid point
\* and there are grid points between it and 1.
ZScale == 10^9
\* z values of magnitude 2.0 and more are kept as 2.0: the code only compares
\* them with +/-extreme, which lies below 1.
ZCap == 2 * ZScale

RECURSIVE DecDigits(_, _, _)
DecDigits(r, d, n) ==
    IF n = 0 THEN 0
    ELSE ((r * 10) \div d) * 10^(n - 1) + DecDigits((r * 10) % d, d, n - 1)

\* |num| / |den| in units of 1e-9, for den # 0.
QuotZ(num, den) ==
    LET a == Abs(num) \div Abs(den)
        r == Abs(num) % Abs(den)
    IN IF a >= 2 THEN ZCap ELSE a * ZScale + DecDigits(r, Abs(den), 9)

\* numpy's x / L (float64): a finite x (an integer count of length units) over
\* an extended L given in thousandths of that unit; the result in units of 1e-9.
DivXL(x, L) ==
    CASE IsNaN(L) -> NaN
      [] IsInfinite(L) -> Fin(0)
      [] IsFin(L) /\ L.v = 0 ->
            IF x = 0 THEN NaN ELSE IF x > 0 THEN PInf ELSE NInf
      [] OTHER -> Fin(Sgn(x) * Sgn(L.v) * QuotZ(1000 * x, L.v))

---------------------------------------------------------------------------
(* Special functions (polymer_fit.py lines 115-164).                       *)

\* extreme=1.0 - 1e-8, the default of inverse_Langevin's second parameter.
extreme_default == ZScale - 10

GtExtreme_at_one(z, extreme) == z.k = "inf" \/ (IsFin(z) /\ z.v >= ZScale)

\* `z > extreme` and `z < -extreme` on float64: false for NaN.
GtExtreme(z, extreme) == z.k = "inf" \/ (IsFin(z) /\ z.v > extreme)
LtNegExtreme(z, extreme) == z.k = "ninf" \/ (IsFin(z) /\ z.v < -extreme)

\* x0 = 3*z + 9./5.*z**3 + 297./175.*z**5, in thousandths (z in thousandths).
newton_x0(zc) ==
    LET z3 == TDiv(zc * zc * zc, 10^6)
        z5 == TDiv(z3 * zc * zc, 10^6)
    IN 3 * zc + TDiv(9 * z3, 5) + TDiv(297 * z5, 175)

\* Whether newton(func=lambda x: Langevin(x)-z, x0=...) raises: at z = 0 the
\* start x0 is 0 and Langevin(0) = coth(0) - 1/0 is inf - inf (or a
\* ZeroDivisionError); with a NaN z every iterate is NaN and the iteration
\* ends with "Failed to converge".
newton_raises(z) == IsNaN(z) \/ (IsFin(z) /\ newton_x0(TDiv(z.v, 10^6)) = 0)

\* The root of Langevin(x) = z that newton() converges to, in thousandths:
\* z + 2z/(1 - z^2), the rational form of the inverse Langevin on this grid.
newton_root(z) ==
    LET zc == TDiv(z.v, 10^6)
    IN Fin(zc + TDiv(2 * zc * 10^6, 10^6 - zc * zc))

\* kB*T / a * inverse_Langevin(x/L) (line 211), with T > 0 and a > 0 both
\* finite: the inverse Langevin and a in thousandths, the force in whole units.
kBT_over_a(T, a, il) ==
    IF IsFin(il) THEN Fin(TDiv(T * il.v, a)) ELSE il


---------------------------------------------------------------------------
(* Solver threads: scalar inverse_Langevin (lines 151-164) and the scalar  *)
(* branch of FJC_PEG_fn (lines 467-478), one statement per step, run by    *)
(* two threads of one process that share sys.stdout.                       *)

Threads == {1, 2}
Other(t) == IF t = 1 THEN 2 ELSE 1
\* tmp_stdout = StringIO.StringIO(): a fresh buffer owned by the calling thread.
tmp_stdout(t) == IF t = 1 THEN "tmp1" ELSE "tmp2"

\* Arguments the callers pass.
ExtremeInputs == {extreme_default, ZScale \div 2}
ZInputs == {Fin(-ZScale), Fin(-extreme_default), Fin(-(ZScale \div 2)), Fin(0),
            Fin(ZScale \div 2), Fin(extreme_default - 1), Fin(extreme_default),
            Fin(ZScale)}
\* PEG section lengths (defaults of 'FJC-PEG L_planar' / 'FJC-PEG L_helical'),
\* in units of 1e-12 m.
PEG_Lp == 358
PEG_Lh == 280
PEG_T == 300
PEG_a == 700
PEG_N == {1, 2}
PEG_X == {-300, 0, 100, 400, 1000}
\* Multipliers f the solve for guess*f may end on, in halves.
PEG_Roots == {1, 2, 3}

InitThreads ==
    /\ real_out = FALSE
    /\ tpc = [t \in Threads |-> "idle"]
    /\ tfn = [t \in Threads |-> "none"]
    /\ tz = [t \in Threads |-> NoVal]
    /\ textreme = [t \in Threads |-> extreme_default]
    /\ tx = [t \in Threads |-> 0]
    /\ tL = [t \in Threads |-> 0]
    /\ tguess = [t \in Threads |-> NoVal]
    /\ tstdout = [t \in Threads |-> "none"]
    /\ tret = [t \in Threads |-> NoVal]
    /\ tnewton = [t \in Threads |-> {}]
    /\ tforeign = [t \in Threads |-> FALSE]

\* A caller evaluates inverse_Langevin(z) on a scalar z.
IL_Call(t) ==
    /\ tpc[t] = "idle" /\ tfn[t] = "none"
    /\ \E z \in ZInputs, e \in ExtremeInputs :
          /\ tz' = [tz EXCEPT ![t] = z]
          /\ textreme' = [textreme EXCEPT ![t] = e]
    /\ tfn' = [tfn EXCEPT ![t] = "IL"]
    /\ tpc' = [tpc EXCEPT ![t] = "il_test"]
    /\ UNCHANGED <<sys_stdout, real_out, tx, tL, tguess, tstdout, tret,
                   tnewton, tforeign>>
    /\ UNCHANGED <<varsFit, varsRun, varsHandoff, varsEval, varsApp>>

\* What a finished inverse_Langevin hands to its caller: the top-level caller
\* gets the value; FJC_fn (line 211, called from line 473) scales it into guess.
IL_Finish(t, val) ==
    IF tfn[t] = "PEG"
    THEN /\ tguess' = [tguess EXCEPT ![t] = kBT_over_a(PEG_T, PEG_a, val)]
         /\ tpc' = [tpc EXCEPT ![t] = "peg_double"]
         /\ UNCHANGED tret
    ELSE /\ tret' = [tret EXCEPT ![t] = val]
         /\ tpc' = [tpc EXCEPT ![t] = "done"]
         /\ UNCHANGED tguess

\* lines 151-154: if z > extreme: return inf / elif z < -extreme: return -inf
inverse_Langevin_test(z, extreme) ==
    IF GtExtreme(z, extreme) THEN PInf
    ELSE IF LtNegExtreme(z, extreme) THEN NInf
    ELSE NoVal

IL_Test(t) ==
    /\ tpc[t] = "il_test"
    /\ LET r == inverse_Langevin_test(tz[t], textreme[t])
       IN IF r # NoVal
          THEN IL_Finish(t, r)
          ELSE /\ tpc' = [tpc EXCEPT ![t] = "il_save"]
               /\ UNCHANGED <<tret, tguess>>
    /\ UNCHANGED <<sys_stdout, real_out, tfn, tz, textreme, tx, tL, tstdout, tnewton,
                   tforeign>>
    /\ UNCHANGED <<varsFit, varsRun, varsHandoff, varsEval, varsApp>>

\* line 157: stdout = sys.stdout
IL_Save(t) ==
    /\ tpc[t] = "il_save"
    /\ tstdout' = [tstdout EXCEPT ![t] = sys_stdout]
    /\ tforeign' = [tforeign EXCEPT ![t] = @ \/ sys_stdout = tmp_stdout(Other(t))]
    /\ tpc' = [tpc EXCEPT ![t] = "il_install"]
    /\ UNCHANGED <<sys_stdout, real_out, tfn, tz, textreme, tx, tL, tguess, tret, tnewton>>
    /\ UNCHANGED <<varsFit, varsRun, varsHandoff, varsEval, varsApp>>

\* lines 158-159: tmp_stdout = StringIO.StringIO(); sys.stdout = tmp_stdout
IL_Install(t) ==
    /\ tpc[t] = "il_install"
    /\ sys_stdout' = tmp_stdout(t)
    /\ tpc' = [tpc EXCEPT ![t] = "il_newton"]
    /\ UNCHANGED <<real_out, tfn, tz, textreme, tx, tL, tguess, tstdout, tret, tnewton,
                   tforeign>>
    /\ UNCHANGED <<varsFit, varsRun, varsHandoff, varsEval, varsApp>>

\* lines 160-161: ret = newton(...). The root-finder may print an exit
\* message to whatever sys.stdout is at that moment; it returns the root or
\* raises, and an exception leaves the function at once.
IL_Newton(t) ==
    /\ tpc[t] = "il_newton"
    /\ tnewton' = [tnewton EXCEPT ![t] = @ \cup {[site |-> "IL", out |-> sys_stdout]}]
    /\ \E prints \in BOOLEAN :
          real_out' = (real_out \/ (prints /\ sys_stdout = "real"))
    /\ IF newton_raises(tz[t])
       THEN /\ tpc' = [tpc EXCEPT ![t] = "raised"]
            /\ UNCHANGED tret
       ELSE /\ tpc' = [tpc EXCEPT ![t] = "il_restore"]
            /\ tret' = [tret EXCEPT ![t] = newton_root(tz[t])]
    /\ UNCHANGED <<sys_stdout, tfn, tz, textreme, tx, tL, tguess, tstdout, tforeign>>
    /\ UNCHANGED <<varsFit, varsRun, varsHandoff, varsEval, varsApp>>

\* line 162: sys.stdout = stdout
IL_Restore(t) ==
    /\ tpc[t] = "il_restore"
    /\ sys_stdout' = tstdout[t]
    /\ tpc' = [tpc EXCEPT ![t] = "il_return"]
    /\ UNCHANGED <<real_out, tfn, tz, textreme, tx, tL, tguess, tstdout, tret, tnewton,
                   tforeign>>
    /\ UNCHANGED <<varsFit, varsRun, varsHandoff, varsEval, varsApp>>

\* lines 163-164: output = tmp_stdout.getvalue(); return ret
IL_Return(t) ==
    /\ tpc[t] = "il_return"
    /\ IL_Finish(t, tret[t])
    /\ UNCHANGED <<sys_stdout, real_out, tfn, tz, textreme, tx, tL, tstdout, tnewton,
                   tforeign>>
    /\ UNCHANGED <<varsFit, varsRun, varsHandoff, varsEval, varsApp>>

\* A caller evaluates FJC_PEG_fn(x, ...) on a scalar x.
PEG_Call(t) ==
    /\ tpc[t] = "idle" /\ tfn[t] = "none"
    /\ \E x \in PEG_X, N \in PEG_N :
          /\ tx' = [tx EXCEPT ![t] = x]
          /\ tL' = [tL EXCEPT ![t] = N * Max2(PEG_Lp, PEG_Lh)]
    /\ tfn' = [tfn EXCEPT ![t] = "PEG"]
    /\ tpc' = [tpc EXCEPT ![t] = "peg_test"]
    /\ UNCHANGED <<sys_stdout, real_out, tz, textreme, tguess, tstdout, tret, tnewton,
                   tforeign>>
    /\ UNCHANGED <<varsFit, varsRun, varsHandoff, varsEval, varsApp>>

\* lines 467-471: if x_data == 0: return 0; guess = inf; L = N*max(Lp, Lh)
PEG_Test(t) ==
    /\ tpc[t] = "peg_test"
    /\ IF tx[t] = 0
       THEN /\ tret' = [tret EXCEPT ![t] = Fin(0)]
            /\ tpc' = [tpc EXCEPT ![t] = "done"]
            /\ UNCHANGED tguess
       ELSE /\ tguess' = [tguess EXCEPT ![t] = PInf]
            /\ tpc' = [tpc EXCEPT ![t] = "peg_loop"]
            /\ UNCHANGED tret
    /\ UNCHANGED <<sys_stdout, real_out, tfn, tz, textreme, tx, tL, tstdout, tnewton,
                   tforeign>>
    /\ UNCHANGED <<varsFit, varsRun, varsHandoff, varsEval, varsApp>>

\* lines 472-473: while guess == inf: guess = FJC_fn(x_data, T=T, L=L, a=a),
\* which evaluates inverse_Langevin(x_data/L).
PEG_Loop(t) ==
    /\ tpc[t] = "peg_loop"
    /\ IF tguess[t] = PInf
       THEN /\ tz' = [tz EXCEPT ![t] = DivXL(tx[t], Fin(1000 * tL[t]))]
            /\ textreme' = [textreme EXCEPT ![t] = extreme_default]
            /\ tpc' = [tpc EXCEPT ![t] = "il_test"]
       ELSE /\ tpc' = [tpc EXCEPT ![t] = "peg_newton"]
            /\ UNCHANGED <<tz, textreme>>
    /\ UNCHANGED <<sys_stdout, real_out, tfn, tx, tL, tguess, tstdout, tret,
                   tnewton, tforeign>>
    /\ UNCHANGED <<varsFit, varsRun, varsHandoff, varsEval, varsApp>>

\* line 474: L *= 2.0
PEG_Double(t) ==
    /\ tpc[t] = "peg_double"
    /\ tL' = [tL EXCEPT ![t] = 2 * @]
    /\ tpc' = [tpc EXCEPT ![t] = "peg_loop"]
    /\ UNCHANGED <<sys_stdout, real_out, tfn, tz, textreme, tx, tguess, tstdout, tret,
                   tnewton, tforeign>>
    /\ UNCHANGED <<varsFit, varsRun, varsHandoff, varsEval, varsApp>>

\* lines 476-478: ret = guess*abs(newton(func=fn, x0=1.0)); return ret.
\* With a non-finite guess fn is NaN everywhere and the iteration fails.
PEG_Newton(t) ==
    /\ tpc[t] = "peg_newton"
    /\ tnewton' = [tnewton EXCEPT ![t] = @ \cup {[site |-> "PEG", out |-> sys_stdout]}]
    /\ \E prints \in BOOLEAN :
          real_out' = (real_out \/ (prints /\ sys_stdout = "real"))
    /\ IF ~IsFin(tguess[t])
       THEN /\ tpc' = [tpc EXCEPT ![t] = "raised"]
            /\ UNCHANGED tret
       ELSE /\ \E f \in PEG_Roots :
                  tret' = [tret EXCEPT ![t] = Fin(TDiv(tguess[t].v * Abs(f), 2))]
            /\ tpc' = [tpc EXCEPT ![t] = "done"]
    /\ UNCHANGED <<sys_stdout, tfn, tz, textreme, tx, tL, tguess, tstdout, tforeign>>
    /\ UNCHANGED <<varsFit, varsRun, varsHandoff, varsEval, varsApp>>

NextThreads ==
    \E t \in Threads :
        \/ IL_Call(t) \/ IL_Test(t) \/ IL_Save(t) \/ IL_Install(t)
        \/ IL_Newton(t) \/ IL_Restore(t) \/ IL_Return(t)
        \/ PEG_Call(t) \/ PEG_Test(t) \/ PEG_Loop(t) \/ PEG_Double(t)
        \/ PEG_Newton(t)

---------------------------------------------------------------------------
(* Model functions and reparametrizations on whole values.  Lengths of     *)
(* the fit harness are counted in units of 1e-10 m; a contour length L is  *)
(* kept in thousandths of that unit.                                       *)

Raised == [k |-> "raise", v |-> 0]
\* A vector result, or an exception in its place.
Vec(sq) == [k |-> "ok", v |-> sq]
RaisedVec == [k |-> "raise", v |-> <<>>]

\* Finite values beyond the grid stay finite, as they do in float64.
FinMax == 2 * 10^9

\* inverse_Langevin on a scalar (lines 151-164), start to end: the value
\* returned, or Raised when newton() raises.
inverse_Langevin(z, extreme) ==
    LET r == inverse_Langevin_test(z, extreme)
    IN IF r # NoVal THEN r
       ELSE IF newton_raises(z) THEN Raised
       ELSE newton_root(z)

\* FJC_fn (line 211) at one element of x_data: the vector branch of
\* inverse_Langevin (lines 146-150) calls inverse_Langevin(z_i).
FJC_fn(x, T, L, a) ==
    LET il == inverse_Langevin(DivXL(x, L), extreme_default)
    IN IF il = Raised THEN Raised ELSE kBT_over_a(T, a, il)

\* WLC_fn (lines 702-704) at one element of x_data:
\* a * (0.25*((1-scaled_data)**-2 - 1) + scaled_data), scaled_data = x/L,
\* with p in thousandths and the force in whole units.
WLC_fn(x, T, L, p) ==
    CASE IsNaN(L) -> NaN
      [] IsInfinite(L) -> Fin(0)
      [] IsFin(L) /\ L.v = 0 ->
            IF x = 0 THEN NaN ELSE IF x > 0 THEN PInf ELSE NInf
      [] IsFin(L) /\ L.v # 0 /\ 1000 * x = L.v -> PInf
      [] OTHER ->
            LET d == L.v - 1000 * x
                r == TDiv(1000 * L.v, d)
                s == TDiv(10^6 * x, L.v)
            IN IF Abs(r) > 40000 THEN Fin(FinMax)
               ELSE Fin(TDiv(T * (((r * r) \div 1000 - 1000) \div 4 + s), p))

\* Division of non-negative integers, rounded to the nearest.
RDiv(n, d) == (2 * n + d) \div (2 * d)

\* log(2) in thousandths.
LN2 == 693

\* numpy.exp(v) for 0 <= v < log(2), in thousandths: the Taylor sum to the
\* fourth power.
exp_frac(r) ==
    1000 + r + (r * r) \div 2000 + (r * r * r) \div (6 * 10^6)
         + (((r * r * r) \div 10^6) * r) \div 24000

\* numpy.exp(v) for v >= 0, in thousandths.
RECURSIVE exp_pos(_)
exp_pos(v) == IF v < LN2 THEN exp_frac(v) ELSE 2 * exp_pos(v - LN2)

\* numpy.exp(v) for a finite v of moderate size, in thousandths; below -14
\* the value is under half a thousandth.
exp_milli(v) ==
    IF v >= 0 THEN exp_pos(v)
    ELSE IF v < -14000 THEN 0
    ELSE RDiv(10^6, exp_pos(-v))

\* numpy.log(y) for 1 <= y < 2 (y in thousandths), in thousandths:
\* 2*(u + u^3/3 + u^5/5), u = (y-1)/(y+1) in units of 1e-4.
ln_frac(y) ==
    LET u == (10^4 * (y - 1000)) \div (y + 1000)
        u3 == (((u * u) \div 10^4) * u) \div 10^4
        u5 == (((u3 * u) \div 10^4) * u) \div 10^4
    IN RDiv(2 * (u + u3 \div 3 + u5 \div 5), 10)

\* numpy.log(y) for y > 0 (y in thousandths), in thousandths.
RECURSIVE ln_milli(_)
ln_milli(y) ==
    IF y >= 2000 THEN LN2 + ln_milli(RDiv(y, 2))
    ELSE IF y < 1000 THEN ln_milli(2 * y) - LN2
    ELSE ln_frac(y)

\* numpy.exp(Lp) + 1 on float64, in thousandths, for Lp in thousandths: exp
\* overflows to inf from 710 on, and below -37 exp(Lp) < 2^-53 is absorbed by
\* the sum, which is then exactly 1.0.
exp_plus_1(Lp) ==
    CASE IsNaN(Lp) -> NaN
      [] Lp.k = "inf" -> PInf
      [] Lp.k = "ninf" -> Fin(1000)
      [] IsFin(Lp) /\ Lp.v >= 710000 -> PInf
      [] IsFin(Lp) /\ Lp.v <= -37000 -> Fin(1000)
      [] IsFin(Lp) /\ Lp.v = -1000 -> Fin(1368)
      [] IsFin(Lp) /\ Lp.v = -693 -> Fin(1500)
      [] IsFin(Lp) /\ Lp.v = 0 -> Fin(2000)
      [] IsFin(Lp) /\ Lp.v = 1000 -> Fin(3718)
      [] IsFin(Lp) /\ Lp.v = 2000 -> Fin(8389)
      [] OTHER -> Fin(exp_milli(Lp.v) + 1000)

\* float64 product of an extended value and a finite x_max.
TimesX(a, x_max) ==
    CASE IsNaN(a) -> NaN
      [] IsInfinite(a) /\ x_max = 0 -> NaN
      [] IsInfinite(a) /\ x_max # 0 -> IF (a.k = "inf") = (x_max > 0) THEN PInf ELSE NInf
      [] OTHER -> Fin(a.v * x_max)

\* FJC.L (lines 317-318): x_max = self.info['x data (m)'].max();
\* return (numpy.exp(Lp)+1)*x_max.  WLC.L (lines 810-811) is the same code.
FJC_L(Lp, x_max) == TimesX(exp_plus_1(Lp), x_max)
WLC_L(Lp, x_max) == TimesX(exp_plus_1(Lp), x_max)

\* numpy.log(y) on float64 for y = num/den, a quotient of integers (den # 0):
\* NaN below zero, -inf at zero.  A positive quotient below the grid's
\* resolution is kept as one thousandth.
log_quot(num, den) ==
    IF num = 0 THEN NInf
    ELSE IF Sgn(num) # Sgn(den) THEN NaN
    ELSE Fin(ln_milli(Max2(1, RDiv(1000 * Abs(num), Abs(den)))))

\* numpy.log(L/x_max) for an extended L in thousandths and a finite x_max.
\* At x_max = 0 the quotient L/x_max is +/-inf or NaN.
log_ratio(L, x_max) ==
    CASE IsNaN(L) -> NaN
      [] L.k = "inf" -> IF x_max >= 0 THEN PInf ELSE NaN
      [] L.k = "ninf" -> IF x_max < 0 THEN PInf ELSE NaN
      [] IsFin(L) /\ x_max = 0 -> IF L.v > 0 THEN PInf ELSE NaN
      [] OTHER -> log_quot(L.v, 1000 * x_max)

FJC_Lp_no_offset(L, x_max) == log_ratio(L, x_max)

\* FJC.Lp (lines 292-293): x_max = self.info['x data (m)'].max();
\* return numpy.log(L/x_max - 1), for L in thousandths.
FJC_Lp(L, x_max) ==
    IF IsFin(L) /\ x_max # 0
    THEN log_quot(L.v - 1000 * x_max, 1000 * x_max)
    ELSE log_ratio(L, x_max)

\* WLC.Lp (lines 785-786) is the same code.
WLC_Lp(L, x_max) == FJC_Lp(L, x_max)

\* log(1e10) in thousandths: a length of x units is x * 1e-10 m.
ln_1e10 == 10 * ln_milli(10000)

\* FJC_PEG.Lr (lines 562-563): numpy.log(L/x_max), L being a count in
\* thousandths and x_max a length in metres.
FJC_PEG_Lr(N, x_max) ==
    LET r == log_ratio(N, x_max)
    IN IF IsFin(r) THEN Fin(r.v + ln_1e10) ELSE r

\* FJC_PEG.L (lines 587-588): numpy.exp(Lr)*x_max
FJC_PEG_L(Lr, x_max) ==
    CASE IsNaN(Lr) -> NaN
      [] Lr.k = "inf" -> TimesX(PInf, x_max)
      [] Lr.k = "ninf" -> Fin(0)
      [] OTHER -> Fin(exp_milli(Lr.v - ln_1e10) * x_max)

\* numpy.log(L/x_max - 1) at L = 1.5 * x_max, the only point the guess uses
\* (lines 357-358, 851-852), in thousandths: log(0.5) for x_max # 0, and
\* log(0/0 - 1) = NaN at x_max = 0.
Lp_of_guess(x_max) == IF x_max = 0 THEN NaN ELSE Fin(-693)

\* numpy .max() of a non-empty vector.
RECURSIVE SeqMax(_)
SeqMax(s) ==
    IF Len(s) = 1 THEN s[1] ELSE Max2(s[1], SeqMax(Tail(s)))

\* value * mask on one element: float64 times numpy.bool.
MaskMul(val, m) ==
    IF m THEN val ELSE IF IsFin(val) THEN Fin(0) ELSE NaN

---------------------------------------------------------------------------
(* One call of PolymerFitCommand.fit_polymer_model (lines 975-1069).       *)

\* Strings the code takes apart are sequences of characters.
s_WLC == <<"W", "L", "C">>
s_FJC == <<"F", "J", "C">>
s_FJC_PEG == <<"F", "J", "C", "-", "P", "E", "G">>
s_FJC_PEG_us == <<"F", "J", "C", "_", "P", "E", "G">>
s_polymer == <<"p", "o", "l", "y", "m", "e", "r">>
s_wlc == <<"w", "l", "c">>
ModelNames == {s_WLC, s_FJC, s_FJC_PEG, s_FJC_PEG_us, s_polymer, s_wlc}

\* str.replace('-', '_')
replace_dash(str) == [i \in 1..Len(str) |-> IF str[i] = "-" THEN "_" ELSE str[i]]

\* 'fit_%s_model' % ...
fit_model_attr(str) == <<"f", "i", "t", "_">> \o str \o <<"_", "m", "o", "d", "e", "l">>

\* The attributes of a PolymerFitCommand whose names have that form
\* (lines 975, 986, 1014, 1043).
FitAttrs == {fit_model_attr(s_polymer), fit_model_attr(s_FJC),
             fit_model_attr(s_FJC_PEG_us), fit_model_attr(s_WLC)}

\* Configuration: 'temperature' in Kelvin, 'FJC Kuhn length' and
\* 'WLC persistence length' (4e-10 m) in thousandths of 1e-10 m.
cfg_temperature == 300
cfg_FJC_Kuhn_length == 4000
cfg_WLC_persistence_length == 4000

\* Bounds of the inputs.
DataLen == 3
RecursionLimit == 3
XValues == {-1, 0, 1, 2}
\* What the least-squares minimizer may hand back for the reparametrized
\* length, in thousandths.
LpResults == {NaN, Fin(-40000), Fin(0), Fin(1000), Fin(800000)}

\* z_data[start:stop] for 0 <= start, stop <= len(z_data).
Slice(sq, a, b) == SubSeq(sq, a + 1, b)

\* The columns of a block that scale (line 953) has been applied to.
block_columns_scaled ==
    <<<<"cantilever adjusted extension (m)">>, <<"deflection (N)">>>>

\* '%s tension (N)' % model
tension_column(model) == model \o <<" tension (N)">>

\* Whether new.info is an object of its own: line 962 assigns
\* copy.deepcopy(data.info), not data.info.
info_is_shared == FALSE
info_is_copied == TRUE

InitFit ==
    /\ fpc = "idle"
    /\ cfg_model = <<>>
    /\ z_data = <<>>
    /\ start = 0
    /\ stop = 0
    /\ depth = 0
    /\ called = <<>>
    /\ adapter = "none"
    /\ info = <<>>
    /\ params = <<>>
    /\ scale = <<>>
    /\ fitted = NoVal
    /\ Lfit = NoVal
    /\ queue = <<>>
    /\ outqueue = <<>>
    /\ fit_info = NoVal
    /\ outcome = [k |-> "none", tension |-> <<>>]
    /\ block_columns = block_columns_scaled
    /\ new_columns = <<>>
    /\ new_params = NoVal
    /\ new_tension = <<>>
    /\ block_installed = FALSE
    /\ evaluated = {}

Fail(err) == /\ outcome' = [k |-> err, tension |-> <<>>]
             /\ fpc' = "done"

\* _run, lines 954-970: the local block `new` with one more column, whose
\* info is a deep copy with the tension column appended, and the call
\* fit_polymer_model(params['curve'], z_data, d_data, start, stop, outqueue)
\* with a model setting, a curve and two bounds (a run is one command, or
\* direct calls).
Fit_Call ==
    /\ fpc = "idle" /\ aop = "none" /\ acls = "none"
    /\ \E m \in ModelNames, zd \in [1..DataLen -> XValues],
          a \in 0..DataLen, b \in 0..DataLen :
          /\ cfg_model' = m
          /\ z_data' = zd
          /\ start' = a
          /\ stop' = b
    /\ depth' = 1
    /\ fpc' = "dispatch"
    /\ new_columns' = Append(block_columns, tension_column(cfg_model'))
    /\ block_columns' = IF info_is_copied THEN block_columns ELSE new_columns'
    /\ UNCHANGED <<called, adapter, info, params, scale, fitted, Lfit, queue,
                   outqueue, fit_info, outcome, sys_stdout, new_params,
                   new_tension, block_installed, evaluated>>
    /\ UNCHANGED <<varsThreads, varsHandoff, varsEval, varsApp>>

\* lines 981-983: fn = getattr(self, 'fit_%s_model' % model.replace('-','_'));
\* return fn(curve, z_data, d_data, start, stop, outqueue)
fit_polymer_model_target(model) ==
    LET attr == fit_model_attr(replace_dash(model))
    IN IF attr \in FitAttrs THEN attr ELSE <<>>

Fit_Dispatch ==
    /\ fpc = "dispatch"
    /\ LET fn == fit_polymer_model_target(cfg_model)
       IN CASE fn = <<>> ->
                  Fail("AttributeError") /\ UNCHANGED <<depth, called>>
            [] fn = fit_model_attr(s_polymer) ->
                  IF depth >= RecursionLimit
                  THEN Fail("RecursionDepthExceeded") /\ UNCHANGED <<depth, called>>
                  ELSE /\ depth' = depth + 1
                       /\ UNCHANGED <<fpc, outcome, called>>
            [] OTHER ->
                  /\ called' = fn
                  /\ fpc' = "adapter"
                  /\ UNCHANGED <<depth, outcome>>
    /\ UNCHANGED <<cfg_model, z_data, start, stop, adapter, info, params, scale,
                   fitted, Lfit, queue, outqueue, fit_info, sys_stdout>>
    /\ UNCHANGED <<varsThreads, varsHandoff, varsEval, varsRun, varsApp>>

\* The class each routine constructs (lines 997, 1026, 1054).
adapter_class(fn) ==
    IF fn = fit_model_attr(s_WLC) THEN "WLC" ELSE "FJC"

\* The info dict each routine builds (lines 990-996, 1018-1025, 1047-1053).
fit_info_dict(fn, zd, a, b) ==
    IF fn = fit_model_attr(s_WLC)
    THEN [T |-> cfg_temperature, x |-> Slice(zd, a, b), given |-> TRUE,
          key |-> "persistence length (m)", fixed |-> cfg_WLC_persistence_length]
    ELSE [T |-> cfg_temperature, x |-> Slice(zd, a, b), given |-> TRUE,
          key |-> "Kuhn length (m)", fixed |-> cfg_FJC_Kuhn_length]

\* lines 990-998 (1018-1027, 1047-1055): info = {...}; model = FJC(...);
\* queue = Queue.Queue()
Fit_Adapter ==
    /\ fpc = "adapter"
    /\ info' = fit_info_dict(called, z_data, start, stop)
    /\ adapter' = adapter_class(called)
    /\ queue' = <<>>
    /\ fpc' = "guess"
    /\ UNCHANGED <<cfg_model, z_data, start, stop, depth, called, params, scale,
                   fitted, Lfit, outqueue, fit_info, outcome, sys_stdout>>
    /\ UNCHANGED <<varsThreads, varsHandoff, varsEval, varsRun, varsApp>>

guess_initial_params_pair(x, given) ==
    IF Len(x) = 0 THEN RaisedVec
    ELSE Vec(<<Lp_of_guess(SeqMax(x)), Fin(100 * SeqMax(x))>>)

\* FJC.guess_initial_params (lines 351-361) and WLC.guess_initial_params
\* (lines 845-855): [Lp] when info holds the fixed length, [Lp, x_max/10]
\* otherwise (the second entry in thousandths).  On an empty window .max()
\* raises ValueError.
guess_initial_params(x, given) ==
    IF Len(x) = 0 THEN RaisedVec
    ELSE IF given THEN Vec(<<Lp_of_guess(SeqMax(x))>>)
    ELSE Vec(<<Lp_of_guess(SeqMax(x)), Fin(100 * SeqMax(x))>>)

\* FJC.guess_scale (lines 374-377), WLC.guess_scale (lines 869-872).
guess_scale(prm) ==
    IF Len(prm) = 1 THEN <<Fin(1000)>>
    ELSE <<Fin(1000)>> \o [i \in 1..(Len(prm) - 1) |-> Fin(TDiv(prm[i + 1].v, 10))]

\* model.fit(outqueue=queue), first part: the initial guess and its scale.
Fit_Guess ==
    /\ fpc = "guess"
    /\ LET g == guess_initial_params(info.x, info.given)
       IN IF g.k = "raise"
          THEN Fail("ValueError") /\ UNCHANGED <<params, scale>>
          ELSE /\ params' = g.v
               /\ scale' = guess_scale(g.v)
               /\ fpc' = "optimize"
               /\ UNCHANGED outcome
    /\ UNCHANGED <<cfg_model, z_data, start, stop, depth, called, adapter, info,
                   fitted, Lfit, queue, outqueue, fit_info, sys_stdout>>
    /\ UNCHANGED <<varsThreads, varsHandoff, varsEval, varsRun, varsApp>>

model_secondary_signed(prm, inf) ==
    IF Len(prm) > 1 THEN prm[2].v ELSE inf.fixed

\* lines 333-336 (611-614, 826-829): a = abs(params[1]) if len(params) > 1,
\* else a = self.info['Kuhn length (m)'].
model_secondary(prm, inf) ==
    IF Len(prm) > 1 THEN Abs(prm[2].v) ELSE inf.fixed

\* FJC.model (lines 329-338) and WLC.model (lines 822-831): the model
\* function over the window at the free vector prm, or Raised when an
\* element's inverse_Langevin raises or info lacks the length a one-element
\* prm needs (KeyError).
adapter_model(cls, prm, inf) ==
    LET L == IF cls = "WLC" THEN WLC_L(prm[1], SeqMax(inf.x))
             ELSE FJC_L(prm[1], SeqMax(inf.x))
        sec == model_secondary(prm, inf)
        vals == IF cls = "WLC"
                THEN [i \in 1..Len(inf.x) |-> WLC_fn(inf.x[i], inf.T, L, sec)]
                ELSE [i \in 1..Len(inf.x) |-> FJC_fn(inf.x[i], inf.T, L, sec)]
    IN IF Len(prm) = 1 /\ ~inf.given THEN RaisedVec
       ELSE IF \E i \in 1..Len(vals) : vals[i] = Raised THEN RaisedVec
       ELSE Vec(vals)

\* ModelFitter.fit after the guess: the data must hold at least as many
\* points as there are free parameters; the minimizer runs, evaluating the
\* model at the initial guess first; one diagnostics record is put on
\* outqueue; a minimizer that did not converge is a PoorFit.  The value is
\* the queue after the call and how the call ended.
ModelFitter_fit(q, npoints, prm, model0, result, converged) ==
    IF npoints < Len(prm)
    THEN [q |-> q, k |-> "UnderDetermined", ret |-> NoVal]
    ELSE IF model0.k = "raise"
    THEN [q |-> q, k |-> "RuntimeError", ret |-> NoVal]
    ELSE [q |-> Append(q, [converged |-> converged, Lp |-> result]),
          k |-> IF converged THEN "returned" ELSE "PoorFit",
          ret |-> IF converged THEN result ELSE NoVal]

fit_outqueue_is_callers == FALSE

\* Whether the queue handed to model.fit is the routine's own: lines 998-999
\* (1027-1028, 1055-1056) pass queue = Queue.Queue(), not the outqueue argument.
fit_outqueue_is_private == TRUE

\* params = model.fit(outqueue=queue) (lines 999, 1028, 1056), after the guess.
Fit_Optimize ==
    /\ fpc = "optimize"
    /\ \E r \in LpResults, conv \in BOOLEAN :
          LET f == ModelFitter_fit(IF fit_outqueue_is_private THEN queue ELSE outqueue,
                                   Len(info.x), params,
                                   adapter_model(adapter, params, info), r, conv)
          IN /\ queue' = IF fit_outqueue_is_private THEN f.q ELSE queue
             /\ outqueue' = IF fit_outqueue_is_private THEN outqueue ELSE f.q
             /\ sys_stdout' = IF f.k = "RuntimeError" THEN "tmp0" ELSE sys_stdout
             /\ IF f.k = "returned"
                THEN /\ fitted' = f.ret
                     /\ fpc' = "reconstruct"
                     /\ UNCHANGED outcome
                ELSE Fail(f.k) /\ UNCHANGED fitted
    /\ UNCHANGED <<cfg_model, z_data, start, stop, depth, called, adapter, info,
                   params, scale, Lfit, fit_info>>
    /\ UNCHANGED <<varsThreads, varsHandoff, varsEval, varsRun, varsApp>>

\* L = model.L(Lp) (lines 1006, 1035, 1063) on the adapter constructed.
model_L(cls, Lp, x) ==
    IF cls = "WLC" THEN WLC_L(Lp, SeqMax(x)) ELSE FJC_L(Lp, SeqMax(x))

\* lines 1000-1007 (1029-1036, 1057-1064)
Fit_Reconstruct ==
    /\ fpc = "reconstruct"
    /\ Lfit' = model_L(adapter, fitted, info.x)
    /\ fpc' = "get"
    /\ UNCHANGED <<cfg_model, z_data, start, stop, depth, called, adapter, info,
                   params, scale, fitted, queue, outqueue, fit_info, outcome,
                   sys_stdout>>
    /\ UNCHANGED <<varsThreads, varsHandoff, varsEval, varsRun, varsApp>>

\* The block argument of the reads: queue.get(block=False) (lines 235, 247,
\* 1008); Queue.get's own default is block=True.
get_block_default == TRUE
get_block == FALSE

\* Queue.get(block): the item and the rest, "Empty" at once on an empty queue
\* when block is false, and a wait ("blocked") when block is true.
Queue_get(q, block) ==
    IF q # <<>> THEN [k |-> "ok", item |-> Head(q), q |-> Tail(q)]
    ELSE [k |-> IF block THEN "blocked" ELSE "Empty", item |-> NoVal, q |-> q]

\* line 1008 (1037, 1065): fit_info = queue.get(block=False)
Fit_GetInfo ==
    /\ fpc = "get"
    /\ LET g == Queue_get(queue, get_block)
       IN /\ g.k # "blocked"
          /\ queue' = g.q
          /\ IF g.k = "ok"
             THEN /\ fit_info' = g.item
                  /\ fpc' = "tension"
                  /\ UNCHANGED outcome
             ELSE Fail("Empty") /\ UNCHANGED fit_info
    /\ UNCHANGED <<cfg_model, z_data, start, stop, depth, called, adapter, info,
                   params, scale, fitted, Lfit, outqueue, sys_stdout>>
    /\ UNCHANGED <<varsThreads, varsHandoff, varsEval, varsRun, varsApp>>

\* mask = numpy.zeros(z_data.shape, dtype=numpy.bool); mask[start:stop] = True
mask(n, a, b) == [i \in 1..n |-> a <= i - 1 /\ i - 1 < b]

\* The model function each routine evaluates on the whole of z_data
\* (lines 1011, 1068); fit_FJC_PEG_model (line 1040) names an undefined kwargs.
model_fn(fn, zd, T, L, fixed) ==
    IF fn = fit_model_attr(s_WLC)
    THEN [i \in 1..Len(zd) |-> WLC_fn(zd[i], T, L, fixed)]
    ELSE [i \in 1..Len(zd) |-> FJC_fn(zd[i], T, L, fixed)]

\* array * mask
times_mask(vals, m) == [i \in 1..Len(vals) |-> MaskMul(vals[i], m[i])]

\* lines 1009-1012 (1038-1041, 1066-1069); evaluated is the set of positions
\* of z_data whose x the model function was called with.
Fit_Tension ==
    /\ fpc = "tension"
    /\ IF called = fit_model_attr(s_FJC_PEG_us)
       THEN Fail("NameError") /\ UNCHANGED <<sys_stdout, evaluated>>
       ELSE LET vals == model_fn(called, z_data, info.T, Lfit, info.fixed)
            IN /\ evaluated' = DOMAIN vals
               /\ IF \E i \in 1..Len(vals) : vals[i] = Raised
                  THEN Fail("RuntimeError") /\ sys_stdout' = "tmp0"
                  ELSE /\ outcome' = [k |-> "returned",
                                      tension |-> times_mask(vals, mask(Len(z_data), start, stop))]
                       /\ fpc' = "done"
                       /\ UNCHANGED sys_stdout
    /\ UNCHANGED <<cfg_model, z_data, start, stop, depth, called, adapter, info,
                   params, scale, fitted, Lfit, queue, outqueue, fit_info>>
    /\ UNCHANGED <<block_columns, new_columns, new_params, new_tension,
                   block_installed>>
    /\ UNCHANGED <<varsThreads, varsHandoff, varsEval, varsApp>>

\* _run, lines 969-973, once fit_polymer_model has returned: tension_data,
\* ps = ...; new.info['%s polymer fit parameters' % model] = ps;
\* new[:,-1] = tension_data; params['curve'].data[params['block']] = new.
\* An exception of the call leaves _run at line 969.
Run_Install ==
    /\ fpc = "done" /\ outcome.k = "returned"
    /\ new_params' = fit_info
    /\ new_tension' = outcome.tension
    /\ block_installed' = TRUE
    /\ fpc' = "installed"
    /\ UNCHANGED <<cfg_model, z_data, start, stop, depth, called, adapter, info,
                   params, scale, fitted, Lfit, queue, outqueue, fit_info,
                   outcome, sys_stdout, block_columns, new_columns, evaluated>>
    /\ UNCHANGED <<varsThreads, varsHandoff, varsEval, varsApp>>

NextFit ==
    \/ Fit_Call \/ Fit_Dispatch \/ Fit_Adapter \/ Fit_Guess \/ Fit_Optimize
    \/ Fit_Reconstruct \/ Fit_GetInfo \/ Fit_Tension \/ Run_Install

---------------------------------------------------------------------------
(* The diagnostics handoff as the doctests drive it (lines 232-247): one   *)
(* outqueue, fits that put their record on it, and non-blocking reads.     *)
(* A fit runs on a worker; the reader may read at any time.                *)

MaxQueue == 3
\* x_data of the doctest adapters, in units of 1e-10 m.
doctest_x == <<100, 200>>
\* What the minimizer may hand back there, in thousandths.
DoctestResults == {Fin(0), Fin(1000)}

InitHandoff ==
    /\ hq = <<>>
    /\ hdata = 0
    /\ hgiven = FALSE
    /\ hfit = "none"
    /\ hempty = TRUE
    /\ hfits = FALSE
    /\ hgets = 0
    /\ hlast = "none"
    /\ hrec = NoVal

\* model = FJC(d_data, info=info, rescale=True); model.fit(outqueue=outqueue)
\* begins (lines 232-234, 245-246).
H_FitBegin ==
    /\ hfit # "running"
    /\ Len(hq) < MaxQueue
    /\ \E n \in 1..Len(doctest_x), g \in BOOLEAN :
          /\ hdata' = n
          /\ hgiven' = g
    /\ hfit' = "running"
    /\ hempty' = (hq = <<>>)
    /\ hfits' = TRUE
    /\ hlast' = "none"
    /\ hrec' = NoVal
    /\ UNCHANGED <<hq, hgets>>
    /\ UNCHANGED <<varsSolver, varsFit, varsRun, varsEval, varsApp>>

\* ... and ends: it returns or raises.
H_FitEnd ==
    /\ hfit = "running"
    /\ \E r \in DoctestResults, conv \in BOOLEAN :
          LET x == Slice(doctest_x, 0, hdata)
              inf == [T |-> cfg_temperature, x |-> x, given |-> hgiven,
                      key |-> "Kuhn length (m)", fixed |-> cfg_FJC_Kuhn_length]
              prm == guess_initial_params(x, hgiven).v
              f == ModelFitter_fit(hq, hdata, prm, adapter_model("FJC", prm, inf),
                                   r, conv)
          IN /\ hq' = f.q
             /\ hfit' = f.k
    /\ hgets' = 0
    /\ hdata' = 0
    /\ hgiven' = FALSE
    /\ UNCHANGED <<hempty, hfits, hlast, hrec>>
    /\ UNCHANGED <<varsSolver, varsFit, varsRun, varsEval, varsApp>>

\* fit_info = outqueue.get(block=False) (lines 235, 247)
H_Get ==
    /\ hlast # "blocked"
    /\ LET g == Queue_get(hq, get_block)
       IN /\ hq' = g.q
          /\ hlast' = g.k
          /\ hrec' = g.item
    /\ hgets' = IF hfit = "running" \/ hgets = 2 THEN hgets ELSE hgets + 1
    /\ UNCHANGED <<hdata, hgiven, hfit, hempty, hfits>>
    /\ UNCHANGED <<varsSolver, varsFit, varsRun, varsEval, varsApp>>

NextHandoff == H_FitBegin \/ H_FitEnd \/ H_Get

---------------------------------------------------------------------------
(* Direct calls.  The functions applied to vectors (lines 146-150,         *)
(* 462-466), and the methods of one adapter object (lines 251-377,         *)
(* 521-658, 744-872) called in any order.                                  *)

\* Vectors of up to VecLen elements.
VecLen == 2
Vectors(S) == UNION {[1..n -> S] : n \in 1..VecLen}

\* inverse_Langevin on a vector (lines 146-150): ret[i] = inverse_Langevin(z_i),
\* the element alone being passed on; an exception in an element ends the call.
inverse_Langevin_iterable(z, extreme) ==
    LET ret == [i \in 1..Len(z) |-> inverse_Langevin(z[i], extreme_default)]
    IN IF \E i \in 1..Len(z) : ret[i] = Raised THEN RaisedVec ELSE Vec(ret)

\* The seed loop of FJC_PEG_fn (line 474) has no bound of its own; the model
\* follows it for this many doublings and reports a longer run as a hang.
PEG_MaxDoublings == 6

Doubled_not(L) == L

\* L *= 2.0 on a float64 in thousandths.
Doubled(L) == IF IsFin(L) THEN Fin(2 * L.v) ELSE L

RECURSIVE FJC_PEG_seed(_, _, _, _, _)
\* line 473: while guess == inf, on the guess just computed from L.
FJC_PEG_seed_test(guess, x, T, L, a, n) ==
    IF guess # PInf
    THEN [guess |-> guess, seeds |-> n + 1,
          newtons |-> IF inverse_Langevin_test(DivXL(x, L), extreme_default) = NoVal
                      THEN 1 ELSE 0,
          hang |-> FALSE]
    ELSE IF n >= PEG_MaxDoublings
    THEN [guess |-> guess, seeds |-> n + 1, newtons |-> 0, hang |-> TRUE]
    ELSE FJC_PEG_seed(x, T, Doubled(L), a, n + 1)

\* lines 472-474: while guess == inf: guess = FJC_fn(x_data, T=T, L=L, a=a);
\* L *= 2.0.  n counts the evaluations of FJC_fn made so far; newtons is 1
\* when the last of them reached the solver inside inverse_Langevin.
FJC_PEG_seed(x, T, L, a, n) ==
    FJC_PEG_seed_test(FJC_fn(x, T, L, a), x, T, L, a, n)

\* L = N*max(Lp, Lh) (line 471), in thousandths, for N in thousandths.
PEG_L0(N) ==
    IF IsFin(N) THEN Fin(TDiv(N.v * Max2(PEG_Lp, PEG_Lh), 100)) ELSE N

\* lines 476-478: guess*abs(newton(func=fn, x0=1.0)) on the seed sd, f being
\* the root newton ends on, in halves.
FJC_PEG_fn_newton(sd, f) ==
    IF sd.hang
    THEN [ret |-> NoVal, seeds |-> sd.seeds, newtons |-> sd.newtons, hang |-> TRUE,
          guess |-> NoVal]
    ELSE IF sd.guess = Raised
    THEN [ret |-> Raised, seeds |-> sd.seeds, newtons |-> sd.newtons, hang |-> FALSE,
          guess |-> NoVal]
    ELSE IF ~IsFin(sd.guess)
    THEN [ret |-> Raised, seeds |-> sd.seeds, newtons |-> sd.newtons + 1,
          hang |-> FALSE, guess |-> sd.guess]
    ELSE [ret |-> Fin(TDiv(sd.guess.v * Abs(f), 2)), seeds |-> sd.seeds,
          newtons |-> sd.newtons + 1, hang |-> FALSE, guess |-> sd.guess]

\* FJC_PEG_fn on a scalar x # 0 (lines 469-478): the seed, then the solve.
\* The value, with the number of FJC_fn evaluations and of solver
\* invocations made and the guess newton was called on (NoVal when it was not).
FJC_PEG_fn_solve(x, T, N, a, f) ==
    FJC_PEG_fn_newton(FJC_PEG_seed(x, T, PEG_L0(N), a, 0), f)

FJC_PEG_fn_no_zero_test(x, T, N, a, f) == FJC_PEG_fn_solve(x, T, N, a, f)

\* FJC_PEG_fn on a scalar (lines 467-478): if x_data == 0: return 0
FJC_PEG_fn(x, T, N, a, f) ==
    IF x = 0
    THEN [ret |-> Fin(0), seeds |-> 0, newtons |-> 0, hang |-> FALSE,
          guess |-> NoVal]
    ELSE FJC_PEG_fn_solve(x, T, N, a, f)

\* An element the loop of lines 464-465 never reached.
NotEvaluated == [ret |-> NoVal, seeds |-> 0, newtons |-> 0, hang |-> FALSE,
                 guess |-> NoVal]

\* The loop of lines 464-465 over the elements' evaluations el, in order: the
\* first element that raises (or hangs) ends the call.
FJC_PEG_fn_loop(el) ==
    LET bad(i) == el[i].ret = Raised \/ el[i].hang
        trace == [i \in 1..Len(el) |->
                     IF \E j \in 1..(i - 1) : bad(j) THEN NotEvaluated ELSE el[i]]
    IN [k |-> IF \E i \in 1..Len(el) : el[i].hang THEN "hang"
              ELSE IF \E i \in 1..Len(el) : bad(i) THEN "raise" ELSE "ok",
        v |-> [i \in 1..Len(el) |-> trace[i].ret],
        trace |-> trace]

\* FJC_PEG_fn on a vector (lines 462-466): ret[i] = FJC_PEG_fn(x, **kwargs)
\* element by element.  The value and, per element, what its evaluation did.
FJC_PEG_fn_iterable(xs, T, N, a, fs) ==
    FJC_PEG_fn_loop([i \in 1..Len(xs) |-> FJC_PEG_fn(xs[i], T, N, a, fs[i])])

\* Arguments of the direct FJC_PEG_fn calls: x in units of 1e-10 m, the
\* segment count N and the Kuhn length a in thousandths.
PEG_EvalX == {-4, -3, 0, 1, 4}
PEG_EvalN == {Fin(1000), Fin(2000), NaN}
PEG_EvalA == {10 * PEG_a, cfg_FJC_Kuhn_length}

\* ---- one adapter object ----

Classes == {"WLC", "FJC", "FJC_PEG"}

\* The key of the secondary length in info (lines 352, 623, 846).
secondary_key(cls) ==
    IF cls = "WLC" THEN "persistence length (m)" ELSE "Kuhn length (m)"

\* The fixed secondary length a caller may store in info, in thousandths.
fixed_secondary(cls) ==
    IF cls = "WLC" THEN cfg_WLC_persistence_length ELSE cfg_FJC_Kuhn_length

\* The info dict of an adapter: temperature, x data, the secondary length
\* when given; `a` stands for a key 'a' (NoVal when there is none).  The
\* PEG entries are the constants PEG_Lp, PEG_Lh.
adapter_info(cls, x, given) ==
    [T |-> cfg_temperature, x |-> x, given |-> given, key |-> secondary_key(cls),
     fixed |-> IF given THEN fixed_secondary(cls) ELSE 0, a |-> NoVal]

\* Deflections an adapter is built on (self._data), in pN: none, pulling,
\* pushing.
DataLevels == {-5, 0, 5}

\* What inverse_FJC_PEG_fn (lines 423-427) gives for the extension of one
\* section at tension F, in thousandths: it has the sign of F, and at F = 0
\* coth(0) - 1/0 = inf - inf is NaN.
inverse_FJC_PEG_fn_values(F) ==
    IF F = 0 THEN {NaN}
    ELSE IF F > 0 THEN {Fin(1000), Fin(3487)}
    ELSE {Fin(-1000), Fin(-3487)}

\* x_max / x_section (line 641), a count in thousandths.
section_count(x_max, x_section) ==
    IF ~IsFin(x_section) THEN NaN
    ELSE Fin(TDiv(10^6 * x_max, x_section.v))

\* Whether the dict _kwargs returns is self.info itself: lines 590-597 build
\* a new dict of five entries.
kwargs_is_info_alias == TRUE
kwargs_is_info == FALSE

\* FJC_PEG.guess_initial_params (lines 632-645).
FJC_PEG_guess_initial_params(x, given, fixed, x_section) ==
    IF Len(x) = 0 THEN RaisedVec
    ELSE LET x_max == SeqMax(x)
             a == IF given THEN fixed ELSE 100 * x_max
             Nr == FJC_PEG_Lr(section_count(x_max, x_section), x_max)
         IN IF given THEN Vec(<<Nr>>) ELSE Vec(<<Nr, Fin(a)>>)

\* kwargs['a'] = a (line 639) as info sees it.
info_after_guess(cls, inf) ==
    IF cls = "FJC_PEG" /\ kwargs_is_info /\ Len(inf.x) > 0
    THEN [inf EXCEPT !.a = Fin(IF inf.given THEN inf.fixed ELSE 100 * SeqMax(inf.x))]
    ELSE inf

\* FJC_PEG.guess_scale (line 658): [x/10.0 for x in params]
FJC_PEG_guess_scale(prm) ==
    [i \in 1..Len(prm) |-> IF IsFin(prm[i]) THEN Fin(TDiv(prm[i].v, 10)) ELSE prm[i]]

\* FJC_PEG.model (lines 608-618), as FJC_PEG_fn_iterable gives it.
FJC_PEG_model(prm, inf, fs) ==
    IF Len(prm) = 1 /\ ~inf.given
    THEN [k |-> "raise", v |-> <<>>, trace |-> <<>>]
    ELSE FJC_PEG_fn_iterable(inf.x, inf.T, FJC_PEG_L(prm[1], SeqMax(inf.x)),
                             model_secondary(prm, inf), fs)

\* Free vectors model() is called with: a reparametrized length and,
\* optionally, a secondary length of either sign, in thousandths.
ModelParams(cls) ==
    LET qs == IF cls = "FJC_PEG" THEN {Fin(ln_1e10), Fin(ln_1e10 + 693)}
              ELSE {Fin(-693), Fin(1000)}
    IN {<<q>> : q \in qs}
       \cup {<<q, Fin(sg * a)>> : q \in qs, sg \in {-1, 1}, a \in {2500, 7000}}

\* Lengths the reparametrizations are applied to, in thousandths.
LengthInputs == {Fin(-1000), Fin(500), Fin(1000), Fin(1001), Fin(1500),
                 Fin(2000), Fin(3000), Fin(35000)}

\* model = FJC(d_data, info=info, rescale=True) and the like.
A_Construct ==
    /\ aop = "none" /\ acls = "none" /\ fpc = "idle"
    /\ \E cls \in Classes, x \in Vectors(XValues), given \in BOOLEAN,
          d \in DataLevels :
          /\ acls' = cls
          /\ ainfo' = adapter_info(cls, x, given)
          /\ adata' = [i \in 1..Len(x) |-> d]
          /\ amodel_data' = [i \in 1..Len(x) |-> Fin(0)]
    /\ aop' = "init"
    /\ UNCHANGED <<aarg, aret>>
    /\ UNCHANGED <<varsSolver, varsFit, varsRun, varsHandoff, varsApp>>

\* model.guess_initial_params()
A_GuessInitialParams ==
    /\ acls # "none" /\ aop = "init"
    /\ IF acls = "FJC_PEG"
       THEN \E xs \in inverse_FJC_PEG_fn_values(SeqMax(adata)) :
               aret' = FJC_PEG_guess_initial_params(ainfo.x, ainfo.given,
                                                    ainfo.fixed, xs)
       ELSE aret' = guess_initial_params(ainfo.x, ainfo.given)
    /\ ainfo' = info_after_guess(acls, ainfo)
    /\ aop' = "guess_initial_params"
    /\ aarg' = <<>>
    /\ UNCHANGED <<acls, adata, amodel_data>>
    /\ UNCHANGED <<varsSolver, varsFit, varsRun, varsHandoff, varsApp>>

\* model.guess_scale(params), params being the guess.
A_GuessScale ==
    /\ acls # "none" /\ aop = "guess_initial_params" /\ aret.k = "ok"
    /\ aarg' = aret.v
    /\ aret' = Vec(IF acls = "FJC_PEG" THEN FJC_PEG_guess_scale(aret.v)
                   ELSE guess_scale(aret.v))
    /\ aop' = "guess_scale"
    /\ UNCHANGED <<acls, ainfo, adata, amodel_data>>
    /\ UNCHANGED <<varsSolver, varsFit, varsRun, varsHandoff, varsApp>>

\* What model() hands back: the vector, or the exception.
model_value(r) == IF r.k = "ok" THEN Vec(r.v) ELSE [k |-> r.k, v |-> <<>>]

\* model.model(params) on an adapter of class cls; fs are the roots the
\* solves of FJC_PEG_fn end on.
call_model(cls, prm, inf, fs) ==
    IF cls = "FJC_PEG" THEN model_value(FJC_PEG_model(prm, inf, fs))
    ELSE adapter_model(cls, prm, inf)

\* model.model(params): the value is also left in self._model_data, which
\* keeps what it held when an element raises.
A_Model ==
    /\ acls # "none" /\ aop \in {"init", "guess_scale"}
    /\ \E prm \in ModelParams(acls), f \in PEG_Roots :
          /\ f = 2 \/ acls = "FJC_PEG"
          /\ aarg' = [params |-> prm, fs |-> [i \in 1..Len(ainfo.x) |-> f],
                      secondary |-> IF Len(prm) = 1 /\ ~ainfo.given THEN NoVal
                                    ELSE Fin(model_secondary(prm, ainfo))]
          /\ aret' = call_model(acls, prm, ainfo, aarg'.fs)
    /\ amodel_data' = IF aret'.k = "ok" THEN aret'.v ELSE amodel_data
    /\ aop' = "model"
    /\ UNCHANGED <<acls, ainfo, adata>>
    /\ UNCHANGED <<varsSolver, varsFit, varsRun, varsHandoff, varsApp>>

\* model.Lp(L) (model.Lr(L) of FJC_PEG) and model.L(Lp) on an adapter.
call_Lp(cls, L, x_max) ==
    CASE cls = "WLC" -> WLC_Lp(L, x_max)
      [] cls = "FJC" -> FJC_Lp(L, x_max)
      [] OTHER -> FJC_PEG_Lr(L, x_max)

call_L(cls, Lp, x_max) ==
    CASE cls = "WLC" -> WLC_L(Lp, x_max)
      [] cls = "FJC" -> FJC_L(Lp, x_max)
      [] OTHER -> FJC_PEG_L(Lp, x_max)

\* model.L(model.Lp(L)) (doctests, lines 312-315, 805-808), and
\* model.L(model.Lr(L)) (lines 582-585).
A_RoundTrip ==
    /\ acls # "none" /\ aop = "init" /\ Len(ainfo.x) > 0
    /\ \E L \in LengthInputs :
          /\ aarg' = L
          /\ aret' = [Lp |-> call_Lp(acls, L, SeqMax(ainfo.x)),
                      L |-> call_L(acls, call_Lp(acls, L, SeqMax(ainfo.x)),
                                   SeqMax(ainfo.x))]
    /\ aop' = "L(Lp(L))"
    /\ UNCHANGED <<acls, ainfo, adata, amodel_data>>
    /\ UNCHANGED <<varsSolver, varsFit, varsRun, varsHandoff, varsApp>>

InitEval ==
    /\ acls = "none"
    /\ ainfo = <<>>
    /\ adata = <<>>
    /\ amodel_data = <<>>
    /\ aop = "none"
    /\ aarg = <<>>
    /\ aret = NoVal

\* inverse_Langevin(z, extreme) on an array z (a run makes one call to a
\* function, or constructs one adapter and calls its methods).
E_inverse_Langevin ==
    /\ aop = "none" /\ acls = "none" /\ fpc = "idle"
    /\ \E z \in Vectors(ZInputs), e \in ExtremeInputs :
          /\ aarg' = [z |-> z, extreme |-> e]
          /\ aret' = inverse_Langevin_iterable(z, e)
    /\ aop' = "inverse_Langevin"
    /\ UNCHANGED <<acls, ainfo, adata, amodel_data>>
    /\ UNCHANGED <<varsSolver, varsFit, varsRun, varsHandoff, varsApp>>

\* FJC_PEG_fn(x_data, T, N, k, Lp, Lh, dG, a) on a scalar or on an array.
E_FJC_PEG_fn ==
    /\ aop = "none" /\ acls = "none" /\ fpc = "idle"
    /\ \E xs \in Vectors(PEG_EvalX), it \in BOOLEAN, N \in PEG_EvalN,
          a \in PEG_EvalA :
          \E fs \in [1..Len(xs) -> PEG_Roots] :
             /\ it \/ Len(xs) = 1
             /\ aarg' = [x |-> xs, iterable |-> it, N |-> N, a |-> a]
             /\ aret' = FJC_PEG_fn_iterable(xs, PEG_T, N, a, fs)
    /\ aop' = "FJC_PEG_fn"
    /\ UNCHANGED <<acls, ainfo, adata, amodel_data>>
    /\ UNCHANGED <<varsSolver, varsFit, varsRun, varsHandoff, varsApp>>

\* Contour lengths of the direct FJC_fn calls, in thousandths, and for each
\* the extensions x inside (0, L): the quarters of L and the last whole
\* unit below L.
FJC_EvalL == {Fin(4000), Fin(200000001)}
FJC_EvalX(L) == {k * (L.v \div 4000) : k \in 1..3} \cup {(L.v - 1) \div 1000}
FJC_EvalA == {2500, cfg_FJC_Kuhn_length}

\* FJC_fn on an array (line 211): inverse_Langevin's vector branch takes the
\* elements one by one.
FJC_fn_iterable(xs, T, L, a) ==
    IF \E i \in 1..Len(xs) : FJC_fn(xs[i], T, L, a) = Raised THEN RaisedVec
    ELSE Vec([i \in 1..Len(xs) |-> FJC_fn(xs[i], T, L, a)])

\* FJC_fn(x_data, T, L, a) on an array of extensions inside (0, L).
E_FJC_fn ==
    /\ aop = "none" /\ acls = "none" /\ fpc = "idle"
    /\ \E L \in FJC_EvalL, a \in FJC_EvalA :
          \E xs \in Vectors(FJC_EvalX(L)) :
             /\ aarg' = [x |-> xs, T |-> cfg_temperature, L |-> L, a |-> a]
             /\ aret' = FJC_fn_iterable(xs, cfg_temperature, L, a)
    /\ aop' = "FJC_fn"
    /\ UNCHANGED <<acls, ainfo, adata, amodel_data>>
    /\ UNCHANGED <<varsSolver, varsFit, varsRun, varsHandoff, varsApp>>

NextEval ==
    \/ E_inverse_Langevin \/ E_FJC_PEG_fn \/ E_FJC_fn
    \/ A_Construct \/ A_GuessInitialParams \/ A_GuessScale \/ A_Model
    \/ A_RoundTrip

---------------------------------------------------------------------------
(* ClickedPoint (src/libhooke.py lines 237-270): a clicked point on the    *)
(* curve plot and the data point nearest to it in x.                        *)

\* Bounds of the data vectors and of the coordinates.
ClickLen == 2
ClickX == {-4, 0, 10}
ClickAt == {-5, 1, 5, 14}

\* Python's a ^ b on non-negative integers: bitwise exclusive or.
RECURSIVE BitXor(_, _)
BitXor(a, b) ==
    IF a = 0 THEN b
    ELSE IF b = 0 THEN a
    ELSE ((a + b) % 2) + 2 * BitXor(a \div 2, b \div 2)

\* line 260: best_diff=10^9
best_diff_start == BitXor(10, 9)

\* lines 258-266: the scan `for point in xvector`, from position i (0-based)
\* with the best position and distance so far; its value is best_index.
RECURSIVE nearest_scan(_, _, _, _, _)
nearest_scan(xv, x0, i, best_index, best_diff) ==
    IF i = Len(xv) THEN best_index
    ELSE IF Abs(xv[i + 1] - x0) < best_diff
    THEN nearest_scan(xv, x0, i + 1, i, Abs(xv[i + 1] - x0))
    ELSE nearest_scan(xv, x0, i + 1, best_index, best_diff)

InitClick ==
    /\ absolute_coords = <<NoVal, NoVal>>
    /\ graph_coords = <<NoVal, NoVal>>
    /\ index = NoVal
    /\ xvector = <<>>
    /\ yvector = <<>>
    /\ click_ret = "none"

\* A click: a new ClickedPoint (__init__, lines 241-248) whose
\* absolute_coords the plot's handler then sets to the clicked position.
CP_Click ==
    /\ \E x \in ClickAt : absolute_coords' = <<Fin(x), Fin(0)>>
    /\ graph_coords' = <<NoVal, NoVal>>
    /\ index' = NoVal
    /\ xvector' = <<>>
    /\ yvector' = <<>>
    /\ click_ret' = "none"
    /\ UNCHANGED <<varsSolver, varsFit, varsRun, varsHandoff, varsEval,
                   varsDriver, varsUI>>

\* find_graph_coords(xvector, yvector), lines 251-270.  abs(point - None)
\* raises TypeError before a click; on empty vectors self.index is set and
\* xvector[best_index] raises IndexError.
CP_find_graph_coords ==
    /\ \E n \in 0..ClickLen : \E xv \in [1..n -> ClickX], yv \in [1..n -> {0, 1}] :
          /\ xvector' = xv
          /\ yvector' = yv
          /\ IF absolute_coords[1] = NoVal /\ n > 0
             THEN /\ click_ret' = "TypeError"
                  /\ UNCHANGED <<index, graph_coords>>
             ELSE IF n = 0
             THEN /\ index' = Fin(0)
                  /\ click_ret' = "IndexError"
                  /\ UNCHANGED graph_coords
             ELSE /\ index' = Fin(nearest_scan(xv, absolute_coords[1].v, 0, 0,
                                               best_diff_start))
                  /\ graph_coords' = <<Fin(xv[index'.v + 1]), Fin(yv[index'.v + 1])>>
                  /\ click_ret' = "returned"
    /\ UNCHANGED absolute_coords
    /\ UNCHANGED <<varsSolver, varsFit, varsRun, varsHandoff, varsEval,
                   varsDriver, varsUI>>

NextClick == CP_Click \/ CP_find_graph_coords

---------------------------------------------------------------------------
(* mfp1dexportDriver (src/trunk/mfp1dexport.py lines 14-40): the lines of  *)
(* a text-exported MFP 1D file and the test whether the file is one.        *)

\* line 31: the header is the first 38 lines.
header_lines == 38
\* Bound of the number of lines of a file.
MaxLines == 39

\* Python's sq[a:b] for 0 <= a: the elements at positions a..b-1 that exist.
PySlice(sq, a, b) ==
    IF a >= Len(sq) \/ b <= a THEN <<>>
    ELSE SubSeq(sq, a + 1, IF b < Len(sq) THEN b ELSE Len(sq))

\* Python's sq[i] for 0 <= i: the element, or IndexError.
PyItem(sq, i) ==
    IF i < Len(sq) THEN [k |-> "ok", v |-> sq[i + 1]]
    ELSE [k |-> "IndexError", v |-> <<>>]

\* First lines of a file, as characters.
FirstLines == {<<"W", "a", "v", "e", "0">>, <<"W", "a", "v", "e">>,
               <<"W", "a", "v">>, <<"X", "Y">>, <<>>}
data_line == <<"1", ".", "0">>

\* The files: n lines, a first line and data lines after it.
FileLines == {[i \in 1..n |-> IF i = 1 THEN first ELSE data_line] :
                 n \in 0..MaxLines, first \in FirstLines}

InitDriver ==
    /\ lines = <<>>
    /\ raw_header = <<>>
    /\ is_me_ret = "none"

\* __init__, lines 16-24: self.lines = list(self.filedata.readlines())
Drv_Init ==
    /\ \E f \in FileLines : lines' = f
    /\ raw_header' = <<>>
    /\ is_me_ret' = "none"
    /\ UNCHANGED <<varsSolver, varsFit, varsRun, varsHandoff, varsEval,
                   varsClick, varsUI>>

\* is_me, lines 29-40.  The slice of line 31 raises on no list, so the
\* handler of lines 32-34 is never entered; raw_header[0] of line 37 raises
\* IndexError on an empty header.
is_me(hdr) ==
    IF PyItem(hdr, 0).k = "IndexError" THEN "IndexError"
    ELSE IF PySlice(PyItem(hdr, 0).v, 0, 4) = <<"W", "a", "v", "e">> THEN "True"
    ELSE "False"

Drv_is_me ==
    /\ raw_header' = PySlice(lines, 0, header_lines)
    /\ is_me_ret' = is_me(raw_header')
    /\ UNCHANGED lines
    /\ UNCHANGED <<varsSolver, varsFit, varsRun, varsHandoff, varsEval,
                   varsClick, varsUI>>

NextDriver == Drv_Init \/ Drv_is_me

---------------------------------------------------------------------------
(* hooke.ui (src/branches/wtk/hooke/ui/__init__.py): the interfaces of     *)
(* USER_INTERFACES, reload_config and load_ui.                              *)

\* lines 38-41, 107-113: the interfaces, keyed by name.
USER_INTERFACES == {"commandline", "gui"}

\* A config section: present with its (option, value) items in order, or
\* missing (config.items raises NoSectionError).
NoSection == [present |-> FALSE, items |-> <<>>]
Section(items) == [present |-> TRUE, items |-> items]

\* The options of the 'user interfaces' section and their values.
SelectOptions == <<"commandline", "gui", "web">>
SelectValues == {"True", "False", "absent"}
IsSet(item) == item[2] # "absent"

SelectSections ==
    {Section(SelectSeq([i \in 1..Len(SelectOptions) |-> <<SelectOptions[i], f[i]>>],
                       IsSet)) :
        f \in [1..Len(SelectOptions) -> SelectValues]} \cup {NoSection}

\* The '<name> user interface' section of an interface.
UISections == {NoSection, Section(<<<<"k", "v">>>>)}

\* A config: its 'user interfaces' section and the section of each interface.
Configs == [select : SelectSections, ui : [USER_INTERFACES -> UISections]]

\* The name argument of load_ui.
UINames == {"None", "commandline", "gui", "web"}

\* dict(items)
dict(items) == {items[i] : i \in 1..Len(items)}

\* reload_config, lines 68-78: self.config = dict(config.items(
\* self.setting_section)), or {} on NoSectionError.
reload_config(config, name) ==
    IF config.ui[name].present THEN dict(config.ui[name].items) ELSE {}

IsTrue(item) == item[2] = "True"

\* line 128: uis = [c for c,v in config.items(...) if v == 'True']
selected_uis(config) == SelectSeq(config.select.items, IsTrue)

assert_some_ui(uis) == Len(uis) >= 1

\* line 129: assert len(uis) == 1
assert_one_ui(uis) == Len(uis) = 1

\* load_ui(config, name), lines 126-133: how the call ends, whether
\* USER_INTERFACES was indexed, and the interface whose reload_config ran.
load_ui_name(config, name) ==
    IF name # "None" THEN [k |-> "ok", name |-> name]
    ELSE IF ~config.select.present THEN [k |-> "NoSectionError", name |-> name]
    ELSE IF ~assert_one_ui(selected_uis(config))
    THEN [k |-> "AssertionError", name |-> name]
    ELSE [k |-> "ok", name |-> selected_uis(config)[1][1]]

load_ui(config, name) ==
    IF load_ui_name(config, name).k # "ok"
    THEN [ret |-> load_ui_name(config, name).k, looked_up |-> FALSE,
          reloaded |-> "none"]
    ELSE IF load_ui_name(config, name).name \notin USER_INTERFACES
    THEN [ret |-> "KeyError", looked_up |-> TRUE, reloaded |-> "none"]
    ELSE [ret |-> load_ui_name(config, name).name, looked_up |-> TRUE,
          reloaded |-> load_ui_name(config, name).name]

no_call == [op |-> "none", config |-> [select |-> NoSection,
                                       ui |-> [u \in USER_INTERFACES |-> NoSection]],
            name |-> "None", ret |-> "none", looked_up |-> FALSE,
            reloaded |-> "none"]

\* __init__, line 57: self.config = {}
InitUI ==
    /\ ui_config = [u \in USER_INTERFACES |-> {}]
    /\ ui_call = no_call

UI_load_ui ==
    /\ \E config \in Configs, name \in UINames :
          /\ ui_call' = [op |-> "load_ui", config |-> config, name |-> name,
                         ret |-> load_ui(config, name).ret,
                         looked_up |-> load_ui(config, name).looked_up,
                         reloaded |-> load_ui(config, name).reloaded]
          /\ ui_config' = IF load_ui(config, name).reloaded = "none" THEN ui_config
                          ELSE [ui_config EXCEPT
                                  ![load_ui(config, name).reloaded] =
                                      reload_config(config, load_ui(config, name).reloaded)]
    /\ UNCHANGED <<varsSolver, varsFit, varsRun, varsHandoff, varsEval,
                   varsClick, varsDriver>>

\* ui.reload_config(config) on one interface, as on ReloadUserInterfaceConfig.
UI_reload_config ==
    /\ \E config \in Configs, u \in USER_INTERFACES :
          /\ ui_call' = [op |-> "reload_config", config |-> config, name |-> u,
                         ret |-> "None", looked_up |-> FALSE, reloaded |-> u]
          /\ ui_config' = [ui_config EXCEPT ![u] = reload_config(config, u)]
    /\ UNCHANGED <<varsSolver, varsFit, varsRun, varsHandoff, varsEval,
                   varsClick, varsDriver>>

NextUI == UI_load_ui \/ UI_reload_config

---------------------------------------------------------------------------
(* Specifications.                                                         *)

Init == /\ sys_stdout = "real" /\ InitThreads /\ InitFit /\ InitHandoff /\ InitEval
        /\ InitClick /\ InitDriver /\ InitUI

\* The solver threads alone.
SpecSolver == Init /\ [][NextThreads]_vars

\* One 'polymer fit' call alone.
SpecFit == Init /\ [][NextFit]_vars

\* The handoff queue alone.
SpecHandoff == Init /\ [][NextHandoff]_vars

\* The direct calls alone.
SpecEval == Init /\ [][NextEval]_vars

\* The adapters, called directly or by the command.
SpecAdapters == Init /\ [][NextFit \/ NextEval]_vars

\* The clicked point alone.
SpecClick == Init /\ [][NextClick]_vars

\* The export driver alone.
SpecDriver == Init /\ [][NextDriver]_vars

\* The interface loader alone.
SpecUI == Init /\ [][NextUI]_vars

Next == \/ NextThreads \/ NextFit \/ NextHandoff \/ NextEval
        \/ NextClick \/ NextDriver \/ NextUI

Spec == Init /\ [][Next]_vars

---------------------------------------------------------------------------
(* Claims.                                                                 *)

InWindow(i) == start <= i - 1 /\ i - 1 < stop

C2_HandoffOneRecord ==
    /\ (hfit = "returned" /\ hempty /\ hgets = 0) => Len(hq) = 1
    /\ (hfit = "returned" /\ hempty /\ hgets = 1)
          => hlast = "ok" /\ hrec # NoVal /\ hrec.converged /\ hq = <<>>
    /\ (hfit = "returned" /\ hempty /\ hgets = 2) => hlast = "Empty" /\ hq = <<>>
    /\ (hlast # "none" /\ hempty /\ hfit \in {"none", "running"})
          => hlast = "Empty" /\ hrec = NoVal /\ hq = <<>>
    /\ hlast # "blocked"

\* C2's case: a fit returned on an empty queue and two reads followed.
C2_Witness ==
    hfit = "returned" /\ hempty /\ hgets = 2 /\ hlast = "Empty" /\ hrec = NoVal

\* C3: 'WLC', 'FJC' and 'FJC-PEG' reach their own routine; every other
\* name ends in the unknown-model error with no routine entered and
\* fit_polymer_model entered once.
C3_DispatchByName ==
    /\ depth <= 1
    /\ called # <<>> =>
          \/ cfg_model = s_WLC /\ called = fit_model_attr(s_WLC)
          \/ cfg_model = s_FJC /\ called = fit_model_attr(s_FJC)
          \/ cfg_model = s_FJC_PEG /\ called = fit_model_attr(s_FJC_PEG_us)
    /\ (fpc \notin {"idle", "dispatch"} /\ cfg_model \notin {s_WLC, s_FJC, s_FJC_PEG})
          => outcome.k = "AttributeError"

\* C4: for 'FJC-PEG' a fit whose minimizer converged returns a pair, and the
\* adapter constructed is FJC_PEG.
C4_FJCPEGReturnsPair ==
    (cfg_model = s_FJC_PEG /\ fitted # NoVal /\ fpc = "done")
        => outcome.k = "returned" /\ adapter = "FJC_PEG"

\* C5: fit_WLC_model and fit_FJC_model never return a tension array built on
\* a contour length that is NaN or infinite: such a fit is a PoorFit.
C5_NoResultFromNonPhysicalL ==
    (outcome.k = "returned") => IsFin(Lfit)

\* C6: a fit on a window with fewer points than free parameters (one, in the
\* fit_*_model routines) ends under-determined, before any initial guess.
C6_UnderDeterminedBeforeGuess ==
    (fpc = "done" /\ called # <<>> /\ Len(Slice(z_data, start, stop)) < 1)
        => outcome.k = "UnderDetermined" /\ params = <<>>

\* C7: the contour length reconstructed from any real Lp is strictly greater
\* than the maximum x of the window.
C7_ContourAboveXMax ==
    (Lfit # NoVal /\ IsFin(fitted))
        => \/ Lfit.k = "inf"
           \/ IsFin(Lfit) /\ Lfit.v > 1000 * SeqMax(info.x)

\* C8: a scalar inverse_Langevin call with |z| >= extreme returns the
\* signed infinity and never reaches the Newton solver.
C8_SaturatedWithoutSolver ==
    \A t \in Threads :
        (tfn[t] = "IL" /\ tpc[t] \notin {"idle", "il_test"}
            /\ IsFin(tz[t]) /\ Abs(tz[t].v) >= textreme[t])
        => /\ tpc[t] = "done"
           /\ tnewton[t] = {}
           /\ tret[t] = IF tz[t].v > 0 THEN PInf ELSE NInf

\* C9: every newton() invocation, in inverse_Langevin and in FJC_PEG_fn,
\* runs with sys.stdout set to a capture buffer (here: of a thread running
\* alone, so that the buffer can only be its own), and nothing the
\* root-finder prints reaches the real stdout.
C9_NewtonRedirected ==
    \A t \in Threads :
        tfn[Other(t)] = "none"
            => /\ \A n \in tnewton[t] : n.out = tmp_stdout(t)
               /\ ~real_out

\* C10: once two concurrent inverse_Langevin evaluations have both returned,
\* sys.stdout is the stream installed before either began, and neither read
\* a value the other wrote.
C10_StdoutRestoredAfterBoth ==
    (\A t \in Threads : tfn[t] = "IL" /\ tpc[t] = "done")
        => /\ sys_stdout = "real"
           /\ \A t \in Threads : ~tforeign[t]

\* C11: the handoff is a single slot: whatever the sequence of fits and
\* non-blocking reads on one queue, it never holds more than one record.
C11_QueueHoldsAtMostOne == Len(hq) <= 1

\* C12: inverse_Langevin(z, extreme) on a vector z returns, element by
\* element, what the scalar call inverse_Langevin(z[i], extreme) with that
\* same extreme returns (and raises where a scalar call raises).
C12_VectorIsScalarPerElement ==
    (aop = "inverse_Langevin")
        => LET z == aarg.z
               sc == [i \in 1..Len(z) |-> inverse_Langevin(z[i], aarg.extreme)]
           IN IF \E i \in 1..Len(z) : sc[i] = Raised
              THEN aret.k = "raise"
              ELSE aret.k = "ok" /\ aret.v = sc

\* C13: FJC_PEG_fn returns exactly 0 for x = 0, as a scalar and as an
\* element of a vector, whatever the parameters, and evaluates neither the
\* FJC seed nor the solver for that element.
C13_ZeroPassesThrough ==
    (aop = "FJC_PEG_fn")
        => \A i \in 1..Len(aarg.x) :
              aarg.x[i] = 0
                 => /\ aret.trace[i].seeds = 0
                    /\ aret.trace[i].newtons = 0
                    /\ aret.trace[i].ret \in {Fin(0), NoVal}
                    /\ (aret.k = "ok" => aret.v[i] = Fin(0))

\* C13's case: a vector whose first element is solved and whose second is 0.
C13_Witness ==
    /\ aop = "FJC_PEG_fn" /\ aarg.iterable /\ Len(aarg.x) = 2
    /\ aarg.x[1] # 0 /\ aarg.x[2] = 0
    /\ aret.k = "ok" /\ aret.v[2] = Fin(0) /\ aret.trace[1].newtons >= 1


\* C14: in each adapter, guess_initial_params returns a one-element vector
\* exactly when the secondary length is in info, and a two-element vector
\* whose second entry is the secondary guess x_max/10 exactly when it is not.
C14_FreeVectorOmitsFixed ==
    (aop = "guess_initial_params")
        => /\ aret.k = "ok"
           /\ ainfo.given <=> Len(aret.v) = 1
           /\ ~ainfo.given <=> Len(aret.v) = 2
           /\ ~ainfo.given => aret.v[2] = Fin(100 * SeqMax(ainfo.x))

C14_Witness ==
    /\ aop = "guess_initial_params" /\ acls = "FJC"
    /\ ainfo.given /\ ainfo.fixed = cfg_FJC_Kuhn_length
    /\ aret.v = <<Fin(-693)>>

\* C15: in each adapter, guess_scale(params) is as long as params, its
\* first element is 1.0 and every further element is the guess over 10.
C15_ScaleOneThenTenth ==
    (aop = "guess_scale")
        => /\ Len(aret.v) = Len(aarg)
           /\ aret.v[1] = Fin(1000)
           /\ \A i \in 2..Len(aarg) : aret.v[i] = Fin(TDiv(aarg[i].v, 10))

\* C16: model(params) uses the absolute value of a secondary parameter:
\* model([q, s]) equals model([q, -s]), the length handed to the model
\* function is never negative, and with a one-element params it is the
\* fixed value stored in info.
C16_SecondaryByAbsoluteValue ==
    (aop = "model")
        => /\ Len(aarg.params) = 2
                => /\ aret = call_model(acls, <<aarg.params[1], Fin(-aarg.params[2].v)>>,
                                        ainfo, aarg.fs)
                   /\ aarg.secondary = Fin(Abs(aarg.params[2].v))
           /\ aarg.secondary # NoVal => aarg.secondary.v >= 0
           /\ (Len(aarg.params) = 1 /\ ainfo.given)
                => aarg.secondary = Fin(ainfo.fixed)
           /\ (Len(aarg.params) = 1 /\ ~ainfo.given) => aret.k = "raise"

C16_Witness ==
    /\ aop = "model" /\ acls = "FJC"
    /\ aarg.params = <<Fin(1000), Fin(-2500)>>
    /\ aret.k = "ok" /\ IsFin(aret.v[1]) /\ aret.v[1].v > 0
    /\ amodel_data = aret.v

\* C17: fixed values never change during a fit: no call of an adapter's
\* guess_initial_params, guess_scale or model changes an entry of info (or
\* the data), and the tension curve fit_WLC_model and fit_FJC_model return is
\* the model function at the configured fixed secondary length.
C17_InfoUnchanged ==
    /\ (acls # "none") => (ainfo' = ainfo /\ adata' = adata)
    /\ (info # <<>>) => (info' = info)

C17_TensionAtConfigured ==
    (outcome.k = "returned")
        => /\ info.fixed = fixed_secondary(adapter)
           /\ outcome.tension =
                 times_mask(model_fn(called, z_data, cfg_temperature, Lfit,
                                     fixed_secondary(adapter)),
                            mask(Len(z_data), start, stop))

C17_FixedValuesNeverChange ==
    [] C17_TensionAtConfigured /\ [][C17_InfoUnchanged]_vars

C17_Witness ==
    /\ acls = "FJC_PEG" /\ aop = "guess_initial_params"
    /\ ainfo.given /\ ainfo.fixed = cfg_FJC_Kuhn_length /\ ainfo.a = NoVal
    /\ Len(aret.v) = 1

C19_LpBoundedBelow ==
    (aop = "L(Lp(L))" /\ acls \in {"WLC", "FJC"} /\ SeqMax(ainfo.x) > 0)
        => /\ aarg.v > 1000 * SeqMax(ainfo.x) => IsFin(aret.Lp)
           /\ aarg.v = 1000 * SeqMax(ainfo.x) => aret.Lp = NInf
           /\ aarg.v < 1000 * SeqMax(ainfo.x) => aret.Lp = NaN

C19_Witness ==
    /\ aop = "L(Lp(L))" /\ acls = "WLC"
    /\ ainfo.x = <<1, 2>> /\ aarg = Fin(2000)
    /\ aret.Lp = NInf

\* The grid's rounding of a round trip through log and exp: one part in a
\* hundred, and two thousandths.
SameLength(a, b) ==
    IsFin(a) /\ IsFin(b) /\ 100 * Abs(a.v - b.v) <= Abs(b.v) + 200

\* C20: the reparametrizations are inverses: L(Lp(L)) = L for every
\* L > x_max in the WLC and FJC adapters, and L(Lr(N)) = N for every N > 0
\* in the FJC_PEG adapter.
C20_RoundTrip ==
    (/\ aop = "L(Lp(L))"
     /\ \/ acls \in {"WLC", "FJC"} /\ aarg.v > 1000 * SeqMax(ainfo.x)
        \/ acls = "FJC_PEG" /\ aarg.v > 0)
        => SameLength(aret.L, aarg)

\* Order of forces, +inf being the largest.
ForceLeq(f, g) == g = PInf \/ (IsFin(f) /\ IsFin(g) /\ f.v <= g.v)

C23_OnlyWindowEvaluated ==
    \A i \in evaluated : InWindow(i)

\* The first position of xv whose element is nearest to x0 (0-based).
first_nearest(xv, x0) ==
    CHOOSE i \in 0..(Len(xv) - 1) :
        /\ \A j \in 0..(Len(xv) - 1) : Abs(xv[i + 1] - x0) <= Abs(xv[j + 1] - x0)
        /\ \A j \in 0..(i - 1) : Abs(xv[j + 1] - x0) > Abs(xv[i + 1] - x0)

\* C24: on non-empty vectors of one length and after a click,
\* find_graph_coords leaves index at the first position of the xvector
\* element nearest to the clicked x, and graph_coords at
\* (xvector[index], yvector[index]), however far the click is.
C24_NearestInX ==
    (xvector # <<>> /\ Len(yvector) = Len(xvector) /\ absolute_coords[1] # NoVal
       /\ click_ret # "none")
        => /\ click_ret = "returned"
           /\ index = Fin(first_nearest(xvector, absolute_coords[1].v))
           /\ graph_coords = <<Fin(xvector[index.v + 1]), Fin(yvector[index.v + 1])>>

\* C29: is_me returns False, without raising, on every file with fewer
\* lines than the 38-line header (the empty file included), and returns True
\* only on a file that holds a full header and whose first line starts with
\* 'Wave'.
C29_ShortFileIsNotMe ==
    (is_me_ret # "none")
        => /\ Len(lines) < header_lines => is_me_ret = "False"
           /\ is_me_ret = "True"
                 => /\ Len(lines) >= header_lines
                    /\ PySlice(lines[1], 0, 4) = <<"W", "a", "v", "e">>

\* The positions of the 'user interfaces' items whose value is 'True'.
TrueEntries(config) ==
    {i \in 1..Len(config.select.items) : config.select.items[i][2] = "True"}

\* The items of an interface's own section as a dict, {} when it is missing.
SectionDict(config, u) ==
    IF config.ui[u].present
    THEN {config.ui[u].items[i] : i \in 1..Len(config.ui[u].items)}
    ELSE {}

C30_LoadStep ==
    (ui_call'.op = "load_ui" /\ ui_call'.name = "None")
        => /\ ui_call'.ret \in USER_INTERFACES
                 => /\ Cardinality(TrueEntries(ui_call'.config)) = 1
                    /\ \A i \in TrueEntries(ui_call'.config) :
                          ui_call'.ret = ui_call'.config.select.items[i][1]
                    /\ ui_call'.reloaded = ui_call'.ret
                    /\ ui_config'[ui_call'.ret]
                          = SectionDict(ui_call'.config, ui_call'.ret)
           /\ (ui_call'.config.select.present
                 /\ Cardinality(TrueEntries(ui_call'.config)) # 1)
                 => /\ ui_call'.ret = "AssertionError"
                    /\ ~ui_call'.looked_up
                    /\ ui_call'.reloaded = "none"
                    /\ ui_config' = ui_config

C30_ReloadStep ==
    (ui_call'.op = "reload_config")
        => ui_config'[ui_call'.name] = SectionDict(ui_call'.config, ui_call'.name)

\* C30: load_ui with name None returns an interface only when exactly one
\* item of 'user interfaces' has the value 'True'; the interface returned is
\* that one, after its reload_config ran.  With no such item or several, the
\* call ends in the assertion, with no interface looked up or reconfigured.
\* reload_config leaves the interface's config at the items of its own
\* section, or at {} when the section is missing.
C30_OneInterfaceSelected ==
    [][C30_LoadStep /\ C30_ReloadStep]_vars

\* C30's case: load_ui(config) returned the one interface selected, whose
\* section holds an item.
C30_Witness ==
    /\ ui_call.op = "load_ui" /\ ui_call.name = "None" /\ ui_call.ret = "gui"
    /\ Cardinality(TrueEntries(ui_call.config)) = 1
    /\ ui_config["gui"] = {<<"k", "v">>}

\* C27: when a scalar inverse_Langevin evaluation, running alone, has left
\* the function (by a return or by an exception out of newton), sys.stdout
\* is the stream it was before the call.
C27_StdoutRestoredOnExit ==
    \A t \in Threads :
        (tfn[t] = "IL" /\ tfn[Other(t)] = "none" /\ tpc[t] \in {"done", "raised"})
            => sys_stdout = "real"

\* The trial length of the seed loop after d doublings of L = N*max(Lp, Lh).
RECURSIVE trial_length(_, _)
trial_length(N, d) ==
    IF d = 0 THEN PEG_L0(N) ELSE Fin(2 * trial_length(N, d - 1).v)

\* C25: for a scalar x # 0 and a positive trial length N*max(Lp, Lh), the
\* seed loop of FJC_PEG_fn ends after finitely many doublings: the trial
\* length it ends on is the first one at which x/L does not exceed the
\* saturation bound.
C25_SeedLoopTerminates ==
    (aop = "FJC_PEG_fn" /\ IsFin(aarg.N) /\ aarg.N.v > 0)
        => /\ aret.k # "hang"
           /\ \A i \in 1..Len(aarg.x) :
                 aret.trace[i].seeds > 0
                    => /\ ~aret.trace[i].hang
                       /\ ~GtExtreme(DivXL(aarg.x[i],
                                           trial_length(aarg.N, aret.trace[i].seeds - 1)),
                                     extreme_default)
                       /\ \A d \in 0..(aret.trace[i].seeds - 2) :
                             GtExtreme(DivXL(aarg.x[i], trial_length(aarg.N, d)),
                                       extreme_default)

\* C25's case: x beyond the first trial length, so that the loop doubled it.
C25_Witness ==
    /\ aop = "FJC_PEG_fn" /\ aarg.N = Fin(1000) /\ aarg.x[1] = 4
    /\ aret.trace[1].seeds = 2 /\ IsFin(aret.trace[1].guess)

\* C26: for a scalar x # 0, positive or negative, and a positive trial
\* length, the guess the seed loop of FJC_PEG_fn hands to newton is finite.
C26_SeedIsFinite ==
    (aop = "FJC_PEG_fn" /\ IsFin(aarg.N) /\ aarg.N.v > 0)
        => \A i \in 1..Len(aarg.x) :
              (aarg.x[i] # 0 /\ aret.trace[i].guess # NoVal)
                  => IsFin(aret.trace[i].guess)

\* C28: a call of fit_polymer_model never changes the outqueue of its
\* caller; when fit_WLC_model or fit_FJC_model returns, the record the fit
\* put on the routine's own queue has been taken off it, that queue is
\* empty, and the record is the second element of the pair returned, which
\* _run stores as the fit parameters.
C28_CallersQueueUntouched ==
    /\ [][outqueue' = outqueue]_vars
    /\ [](outcome.k = "returned"
            => /\ queue = <<>>
               /\ fit_info = [converged |-> TRUE, Lp |-> fitted]
               /\ fpc = "installed" => new_params = fit_info)

\* C28's case: a fit returned its pair and _run stored the record.
C28_Witness ==
    /\ fpc = "installed" /\ outcome.k = "returned"
    /\ new_params = [converged |-> TRUE, Lp |-> Fin(1000)]
    /\ queue = <<>> /\ outqueue = <<>>

===========================================================================
